---- MODULE Spec2Model ----
(***************************************************************************)
(* Model of the release orchestrator dev-tools/build_release.py and of the *)
(* version-control driver release/git/git.py.                              *)
(*                                                                         *)
(* The state is the local git repository (branches, heads, tags, working   *)
(* tree), the command-line arguments, the orchestrator's own variables     *)
(* (master_hash, version_hash, success), the position of __main__ and the  *)
(* effects that leave the machine (deploy, push, upload, mail).            *)
(* Every external command (run.run) may exit non-zero: each action draws   *)
(* how many of its commands succeeded.                                     *)
(* release/fileupdater/updater.py (process_file) is modelled on a file     *)
(* system of two paths, the file to rewrite and the temporary file.        *)
(* The functions of release/documentation/doc_update.py, guess_snapshot    *)
(* and announcement.prepare_email are applied to bounded sets of arguments *)
(* (specifications SpecDoc, SpecGuess, SpecMail).                          *)
(***************************************************************************)
EXTENDS Integers, Sequences, FiniteSets, TLC

VARIABLES
  pc,            \* position of __main__
  dry_run,       \* args.dryrun   (build_release.py:369)
  src_branch,    \* args.branch   (build_release.py:366)
  check,         \* args.check    (build_release.py:372)
  mail,          \* args.mail     (build_release.py:370)
  startBranch,   \* branch checked out when the process started
  awsCreds,      \* AWS_ACCESS_KEY_ID / AWS_SECRET_ACCESS_KEY are set
  javaHome,      \* JAVA_HOME is set (build_release.py:95)
  run_tests,     \* args.tests    (build_release.py:368), FALSE when --skiptests is given
  pom,           \* pom.xml on src_branch: its lines, each a sequence of tokens
  openIssues,    \* issue tracker: number of open issues labelled with the version
  artifact,      \* target/releases/<artifact_id>-<version>.zip exists
  current,       \* git: checked-out branch
  head,          \* git: branch name -> head commit
  tags,          \* git: tag name -> commit
  dirty,         \* git: working tree holds uncommitted rewrites of pom.xml / README.md
  master_hash,   \* build_release.py:429
  version_hash,  \* build_release.py:431
  success,       \* build_release.py:441, 513
  raised,        \* exception in flight or that ended the process
  status,        \* "running", "exit0", "exit-1", "traceback"
  deployed,      \* mvn deploy ran (artifact repository)
  pushed,        \* refs pushed to the remote
  uploaded,      \* files uploaded to the object store
  emailFile,     \* target/email.txt written
  mailSent,      \* SMTP sendmail done
  done,          \* history: pipeline steps completed, in order
  cleanupRun,    \* history: cleanup commands that were executed
  failedAt,      \* history: position of the first error of the run ("none")
  cleanupFailed, \* history: a command of the finally block exited non-zero
                 \* (other than git tag -d of a tag that does not exist)
  created,       \* history: release branches this run created
  cmds,          \* history: commands and file operations issued, in order
  calls,         \* history: driver operations called (specification SpecOps)
  pf,            \* process_file: its locals and the two files (specification SpecFile)
  release_version, \* build_release.py:395
  fn             \* a function under study: its arguments and results
                 \* (specifications SpecDoc, SpecGuess, SpecMail)

args  == <<dry_run, src_branch, check, mail, startBranch, awsCreds, javaHome, run_tests, pom,
           openIssues>>
repo  == <<current, head, tags, dirty>>
ckpt  == <<master_hash, version_hash>>
ext   == <<deployed, pushed, uploaded, emailFile, mailSent>>
ctl   == <<pc, success, raised, status>>
hist  == <<done, cleanupRun, failedAt, cleanupFailed, created>>
vars  == <<args, repo, ckpt, ext, ctl, hist, artifact, cmds, calls, pf, release_version, fn>>

(***************************************************************************)
(* Names and values                                                        *)
(***************************************************************************)
Master == "master"
SourceBranches == {"master", "1.x"}
ReleaseVersion == "2.5.0"
NoHash == "unset"

\* git.release_branch
release_branch(branchsource, version) ==
  "release_branch_" \o branchsource \o "_" \o version

\* tag name used by tag_release, push and the cleanup
TagName(version) == "v" \o version

\* head commits before the run, and the remote's heads when it is ahead
PreRunHead(b) == IF b = Master THEN "m0" ELSE "s0"
RemoteHead(b) == "origin/" \o b

\* a commit made on top of parent with the given message
Commit(parent, msg) == parent \o " + " \o msg

NoTags == [t \in {} |-> ""]

\* names bound in the module namespace of build_release.py
\* (imports of lines 17-32 and the module's own definitions)
ModuleGlobals ==
  {"re", "os", "argparse", "subprocess", "sys", "partial", "dirname", "abspath",
   "logger", "github", "git", "announcement", "strings", "run", "doc_update",
   "env", "ROOT_DIR", "README_FILE", "POM_FILE", "DEV_TOOLS_DIR",
   "guess_snapshot", "find_release_version", "find_from_pom", "get_artifacts",
   "generate_checksums", "run_mvn", "build_release", "publish_artifacts",
   "print_sonatype_notice", "check_s3_credentials", "check_command_exists",
   "run_and_print", "check_env_var", "check_environment_and_commandline_tools"}

\* the canonical order of the pipeline's steps
StepOrder ==
  <<"BranchesCreated", "VersionCommitted", "Built", "MasterUpdated", "Tagged",
    "SnapshotCommitted", "Pushed", "Published", "Announced", "Done">>

(***************************************************************************)
(* git commands on the repository state                                    *)
(***************************************************************************)
Branches == DOMAIN head

\* git checkout <b>: exits non-zero when the branch does not exist
CanCheckout(b) == b \in Branches

\* git checkout -b <b>: exits non-zero when the branch already exists
CanCreate(b) == b \notin Branches

\* head after `git checkout -b nb` issued on branch from
WithBranch(h, nb, from) == [b \in (DOMAIN h) \cup {nb} |-> IF b = nb THEN h[from] ELSE h[b]]

\* head after `git branch -D b`
WithoutBranch(h, b) == [x \in (DOMAIN h) \ {b} |-> h[x]]

\* head after `git reset --hard hash` on branch b
ResetTo(h, b, hash) == [h EXCEPT ![b] = hash]

(***************************************************************************)
(* Commands issued through run.run, os.system and os.popen                 *)
(***************************************************************************)
\* of the commands cs issued in order, the first n exit with 0: those and
\* the one that failed were issued
Attempted(cs, n) == SubSeq(cs, 1, IF n < Len(cs) THEN n + 1 ELSE Len(cs))

\* what `git rev-parse --verify HEAD 2>&1` prints when it exits non-zero
ErrorOutput == "fatal: Needed a single revision"

(***************************************************************************)
(* release/fileupdater/updater.py: files are sequences of lines, the file  *)
(* system maps the paths that exist to their content                       *)
(***************************************************************************)
MaxLines == 2
MaxOpenIssues == 1

Lines ==
  {"<version>2.5.0-SNAPSHOT</version>", "<version>2.5.0</version>",
   "<artifactId>plugin</artifactId>"}

FilePath == "file_path"
TmpPath == "abs_path"

\* the line_callback parameter: any function of the line
Callbacks == [Lines -> Lines]

\* updater.py:38-39
dummy_line_callback == [line \in Lines |-> line]

NoFiles == [p \in {} |-> <<>>]

\* process_file is not running
PfIdle ==
  [pc |-> "idle", fs |-> NoFiles, line_callback |-> dummy_line_callback, orig |-> <<>>,
   i |-> 0, modified |-> FALSE, replaced |-> FALSE, ret |-> "none"]

(***************************************************************************)
(* pom.xml: a sequence of lines, each line a sequence of tokens. The       *)
(* patterns searched for and replaced are made of whole tokens.            *)
(***************************************************************************)
NoVersion == "unset"
NoMatch == "None"
RaisesRuntimeError == "RuntimeError"
NoFn == [op |-> "none"]

RECURSIVE Concat(_)
\* the text of a sequence of tokens
Concat(ts) == IF ts = <<>> THEN "" ELSE Head(ts) \o Concat(Tail(ts))

VersionLine(v) == <<"<version>", v, "</version>">>
SnapshotLine(v) == <<"<version>", v, "-SNAPSHOT", "</version>">>
ArtifactIdLine == <<"<artifactId>", "plugin", "</artifactId>">>
Indented(line) == <<"  ">> \o line

Element(tag, value) == <<"<" \o tag \o ">">> \o value \o <<"</" \o tag \o ">">>
DescriptorLines ==
  <<Element("name", <<"Plugin">>), Element("description", <<"A", " ", "plugin">>),
    Element("url", <<"http://example.org">>)>>
ParentArtifactId == Element("artifactId", <<"elasticsearch-parent">>)
EsVersion == "1.4.0"

\* how a manifest names the elasticsearch version: a property, or the version
\* of the elasticsearch-parent project; released or snapshot
PropertyRelease == <<Indented(Element("elasticsearch.version", <<EsVersion>>))>>
PropertySnapshot == <<Indented(Element("elasticsearch.version", <<EsVersion, "-SNAPSHOT">>))>>
ParentRelease == <<ParentArtifactId, VersionLine(EsVersion)>>
ParentSnapshot == <<ParentArtifactId, SnapshotLine(EsVersion)>>

\* the manifests a run may find on src_branch
Poms ==
  {<<ArtifactIdLine, SnapshotLine(ReleaseVersion), Indented(VersionLine(ReleaseVersion))>>
     \o DescriptorLines \o PropertyRelease,
   <<ArtifactIdLine, SnapshotLine(ReleaseVersion), Indented(VersionLine(ReleaseVersion))>>
     \o DescriptorLines \o PropertySnapshot,
   ParentRelease \o <<ArtifactIdLine, SnapshotLine(ReleaseVersion)>> \o DescriptorLines,
   ParentSnapshot \o <<ArtifactIdLine, SnapshotLine(ReleaseVersion)>> \o DescriptorLines,
   <<ArtifactIdLine, SnapshotLine(ReleaseVersion), Indented(SnapshotLine("1.0.0"))>>
     \o DescriptorLines \o PropertyRelease,
   <<SnapshotLine(ReleaseVersion)>> \o PropertySnapshot,
   <<ArtifactIdLine, SnapshotLine(ReleaseVersion)>> \o DescriptorLines,
   <<ArtifactIdLine, VersionLine(ReleaseVersion)>> \o DescriptorLines \o PropertyRelease}

\* re.search(r'<version>(.+)-SNAPSHOT</version>', line), build_release.py:149:
\* the leftmost <version>, then the longest text that leaves
\* -SNAPSHOT</version> after it; the value is group(1)
re_search(line) ==
  LET starts == {i \in 1..Len(line) :
                   /\ line[i] = "<version>"
                   /\ \E j \in (i + 2)..(Len(line) - 1) :
                        line[j] = "-SNAPSHOT" /\ line[j + 1] = "</version>"}
  IN  IF starts = {}
        THEN NoMatch
        ELSE LET i == CHOOSE a \in starts : \A b \in starts : a <= b
                 ends == {j \in (i + 2)..(Len(line) - 1) :
                            line[j] = "-SNAPSHOT" /\ line[j + 1] = "</version>"}
                 j == CHOOSE a \in ends : \A b \in ends : a >= b
             IN  Concat(SubSeq(line, i + 1, j - 1))

\* mutant of find_release_version: the last matching line wins
find_release_version_LastMatch(p) ==
  LET hits == {i \in 1..Len(p) : re_search(p[i]) # NoMatch}
  IN  IF hits = {} THEN RaisesRuntimeError
                   ELSE re_search(p[CHOOSE a \in hits : \A b \in hits : a >= b])

\* find_release_version, build_release.py:145-152, after its checkout: the
\* group of the first line that matches, RuntimeError when no line does
find_release_version(p) ==
  LET hits == {i \in 1..Len(p) : re_search(p[i]) # NoMatch}
  IN  IF hits = {} THEN RaisesRuntimeError
                   ELSE re_search(p[CHOOSE a \in hits : \A b \in hits : a <= b])

\* no value: find_from_pom raises RuntimeError
NotFound == <<>>

\* re.search(r'<%s>(.+)</%s>' % (tag, tag), line), build_release.py:164: the
\* leftmost <tag>, then the longest non-empty text that leaves </tag> after
\* it; the value is group(1), kept as its tokens
re_search_tag(tag, line) ==
  LET open == "<" \o tag \o ">"
      close == "</" \o tag \o ">"
      starts == {i \in 1..Len(line) :
                   line[i] = open /\ \E j \in (i + 2)..Len(line) : line[j] = close}
  IN  IF starts = {}
        THEN NotFound
        ELSE LET i == CHOOSE a \in starts : \A b \in starts : a <= b
                 ends == {j \in (i + 2)..Len(line) : line[j] = close}
                 j == CHOOSE a \in ends : \A b \in ends : a >= b
             IN  SubSeq(line, i + 1, j - 1)

\* re.search(r'%s' % first_line, line), build_release.py:169: the text occurs
\* in the line
re_search_text(text, line) ==
  \E i \in 1..(Len(line) - Len(text) + 1) : SubSeq(line, i, i + Len(text) - 1) = text

\* find_from_pom, build_release.py:156-175: the value of the first <tag>
\* element on a line after the first line matching first_line (on any line
\* when first_line is None, here <<>>)
find_from_pom(p, tag, first_line) ==
  LET previous_line_matched(k) ==
        first_line = <<>> \/ \E j \in 1..(k - 1) : re_search_text(first_line, p[j])
      hits == {k \in 1..Len(p) :
                 previous_line_matched(k) /\ re_search_tag(tag, p[k]) # NotFound}
  IN  IF hits = {} THEN NotFound
                   ELSE re_search_tag(tag, p[CHOOSE a \in hits : \A b \in hits : a <= b])

\* lines 396-399: artifactId, name, description and url are all found
descriptors_found(p) ==
  \A tag \in {"artifactId", "name", "description", "url"} :
    find_from_pom(p, tag, <<>>) # NotFound

\* lines 401-406: the property, else the version after the parent's artifactId
elasticsearch_version(p) ==
  IF find_from_pom(p, "elasticsearch.version", <<>>) # NotFound
    THEN find_from_pom(p, "elasticsearch.version", <<>>)
    ELSE find_from_pom(p, "version", ParentArtifactId)

\* mutant of is_snapshot: no dependency version is refused
is_snapshot_Never(v) == FALSE

\* line 411: elasticsearch_version.find('-SNAPSHOT') != -1
is_snapshot(v) == \E i \in 1..Len(v) : v[i] = "-SNAPSHOT"

(***************************************************************************)
(* Initial state: the interpreter starts loading build_release.py          *)
(***************************************************************************)
Init ==
  /\ pc = "load"
  /\ javaHome \in BOOLEAN
  /\ run_tests \in BOOLEAN
  /\ pom \in Poms
  /\ release_version = NoVersion
  /\ fn = NoFn
  /\ dry_run \in BOOLEAN
  /\ src_branch \in SourceBranches
  /\ check \in BOOLEAN
  /\ mail \in BOOLEAN
  /\ startBranch \in SourceBranches
  /\ awsCreds \in BOOLEAN
  /\ openIssues \in 0..MaxOpenIssues
  /\ artifact \in BOOLEAN
  /\ current = startBranch
  /\ \E left \in SUBSET {release_branch(Master, ReleaseVersion),
                         release_branch("1.x", ReleaseVersion)} :
       head = [b \in SourceBranches \cup left |->
                 IF b \in SourceBranches THEN PreRunHead(b) ELSE "old"]
  /\ tags \in {NoTags, [t \in {TagName(ReleaseVersion)} |-> "old"]}
  /\ dirty = FALSE
  /\ master_hash = NoHash
  /\ version_hash = NoHash
  /\ success = FALSE
  /\ raised = "none"
  /\ status = "running"
  /\ deployed = FALSE
  /\ pushed = {}
  /\ uploaded = {}
  /\ emailFile = FALSE
  /\ mailSent = FALSE
  /\ done = <<>>
  /\ cleanupRun = {}
  /\ failedAt = "none"
  /\ cleanupFailed = FALSE
  /\ created = {}
  /\ cmds = <<>>
  /\ calls = <<>>
  /\ pf = PfIdle

(***************************************************************************)
(* How an exception leaves each region of __main__                         *)
(***************************************************************************)
\* lines 366-425: no handler, the process ends with a traceback
Uncaught(kind) ==
  /\ pc' = "ended"
  /\ status' = "traceback"
  /\ raised' = kind
  /\ failedAt' = pc
  /\ UNCHANGED success

\* lines 427-436: RuntimeError is caught at line 437
ToBranchHandler ==
  /\ pc' = "bc_failed"
  /\ raised' = "RuntimeError"
  /\ failedAt' = pc
  /\ UNCHANGED <<success, status>>

\* lines 442-513: the finally clause of line 514 runs with the exception pending
ToFinally(kind) ==
  /\ pc' = "finally"
  /\ raised' = kind
  /\ failedAt' = pc
  /\ UNCHANGED <<success, status>>

\* lines 515-539: an exception raised in the finally clause ends the process
OutOfFinally(kind) ==
  /\ pc' = "ended"
  /\ status' = "traceback"
  /\ raised' = kind
  /\ UNCHANGED <<success, failedAt>>

Goto(l) ==
  /\ pc' = l
  /\ UNCHANGED <<success, raised, status, failedAt>>

(***************************************************************************)
(* __main__, lines 366-425: argument handling and the release descriptor   *)
(***************************************************************************)
\* mutant of IsTrunk: the trunk check never fires
IsTrunk_Never(b) == FALSE

\* line 376: the branch to release is the trunk branch
IsTrunk(b) == b = Master

\* lines 93-108, executed when the module is loaded, before the arguments
\* are parsed: a missing JAVA_HOME raises RuntimeError from the handler of
\* KeyError; `mvn3 --version` chooses the maven command and its failure is
\* caught
Main_ModuleInit ==
  /\ pc = "load"
  /\ IF javaHome
       THEN /\ Goto("start")
            /\ cmds' = Append(cmds, "mvn3 --version")
       ELSE /\ Uncaught("RuntimeError")
            /\ UNCHANGED cmds
  /\ UNCHANGED <<args, repo, ckpt, ext, done, cleanupRun, cleanupFailed, created, artifact,
                 calls, pf, release_version, fn>>

\* check_env_var, lines 301-310, for a required variable: KeyError is
\* caught and reported
check_env_var(present) == IF present THEN "OK" ELSE "FAILED"

\* run_and_print, lines 289-299, for a required tool: RuntimeError is
\* caught and reported
run_and_print(present) == IF present THEN "OK" ELSE "FAILED"

\* lines 372-374: --check reports (lines 313-342) and exits with status 0
Main_Check ==
  /\ pc = "start"
  /\ check
  /\ \E mailSender, tools \in BOOLEAN :
       cmds' = cmds \o <<"AWS " \o check_env_var(awsCreds),
                         "MAIL_SENDER " \o check_env_var(mailSender),
                         "tools " \o run_and_print(tools)>>
  /\ pc' = "ended"
  /\ status' = "exit0"
  /\ UNCHANGED <<args, repo, ckpt, ext, success, raised, hist, artifact, calls, pf,
                 release_version, fn>>

\* lines 376-377: releasing master is refused
Main_MasterCheck ==
  /\ pc = "start"
  /\ ~check
  /\ IF IsTrunk(src_branch) THEN Uncaught("RuntimeError") ELSE Goto("precheck")
  /\ UNCHANGED <<args, repo, ckpt, ext, done, cleanupRun, cleanupFailed, created, artifact,
                 cmds, calls, pf, release_version, fn>>

\* mutant of check_s3_credentials: the credentials are not looked at
check_s3_credentials_Unchecked == TRUE

\* check_s3_credentials, lines 275-278
check_s3_credentials == awsCreds

\* lines 382-388: publish mode checks the credentials and asks for confirmation
Main_PublishPrecheck ==
  /\ pc = "precheck"
  /\ IF dry_run
       THEN Goto("descriptor")
       ELSE IF ~check_s3_credentials
              THEN Uncaught("RuntimeError")
              ELSE \E confirmed \in BOOLEAN :
                     IF confirmed THEN Goto("descriptor") ELSE Uncaught("KeyboardInterrupt")
  /\ UNCHANGED <<args, repo, ckpt, ext, done, cleanupRun, cleanupFailed, created, artifact,
                 cmds, calls, pf, release_version, fn>>

\* lines 395-417: find_release_version checks out src_branch and reads pom.xml;
\* a pom without snapshot version, without one of the descriptors or with a
\* snapshot dependency is refused
Main_ReadDescriptor ==
  /\ pc = "descriptor"
  /\ \E ok \in BOOLEAN :
       IF ok /\ CanCheckout(src_branch)
         THEN /\ current' = src_branch
              /\ IF find_release_version(pom) = RaisesRuntimeError
                   THEN /\ Uncaught("RuntimeError")
                        /\ UNCHANGED release_version
                   ELSE /\ release_version' = find_release_version(pom)
                        /\ IF \/ ~descriptors_found(pom)
                              \/ elasticsearch_version(pom) = NotFound
                              \/ is_snapshot(elasticsearch_version(pom))
                             THEN Uncaught("RuntimeError")
                             ELSE \E confirmed \in BOOLEAN :
                                    IF confirmed THEN Goto("cp_master")
                                                 ELSE Uncaught("KeyboardInterrupt")
         ELSE /\ Uncaught("RuntimeError")
              /\ UNCHANGED <<current, release_version>>
  /\ cmds' = Append(cmds, "git checkout")
  /\ UNCHANGED <<args, head, tags, dirty, ckpt, ext, done, cleanupRun, cleanupFailed,
                 created, artifact, calls, pf, fn>>

(***************************************************************************)
(* __main__, lines 427-439: checkpoint and release branches                *)
(***************************************************************************)
\* git.get_head_hash, git.py:23-24: os.popen(...).read().strip() is the
\* output of `git rev-parse --verify HEAD 2>&1` on the branch just checked
\* out: the head when the command exits with 0 (ok), its error text when
\* it does not. os.popen does not look at the exit status.
get_head_hash(checkedOut, ok) == IF ok THEN head[checkedOut] ELSE ErrorOutput

\* mutant of Main_CaptureMasterHash: the hash is read after master was
\* pulled
Main_CaptureMasterHash_AfterPull ==
  /\ pc = "cp_master"
  /\ \E ok \in BOOLEAN :
       IF ok /\ CanCheckout(Master)
         THEN /\ current' = Master
              /\ head' = ResetTo(head, Master, RemoteHead(Master))
              /\ master_hash' = RemoteHead(Master)
              /\ cmds' = cmds \o <<"git checkout", "git pull --rebase", "git rev-parse">>
              /\ Goto("cp_version")
         ELSE /\ ToBranchHandler
              /\ cmds' = Append(cmds, "git checkout")
              /\ UNCHANGED <<current, head, master_hash>>
  /\ UNCHANGED <<args, tags, dirty, version_hash, ext, done, cleanupRun,
                 cleanupFailed, created, artifact, calls, pf, release_version, fn>>

\* lines 428-429
Main_CaptureMasterHash ==
  /\ pc = "cp_master"
  /\ \E ok \in BOOLEAN, rev \in BOOLEAN :
       IF ok /\ CanCheckout(Master)
         THEN /\ current' = Master
              /\ master_hash' = get_head_hash(Master, rev)
              /\ cmds' = cmds \o <<"git checkout", "git rev-parse">>
              /\ Goto("cp_version")
         ELSE /\ ToBranchHandler
              /\ cmds' = Append(cmds, "git checkout")
              /\ UNCHANGED <<current, master_hash>>
  /\ UNCHANGED <<args, head, tags, dirty, version_hash, ext, done, cleanupRun,
                 cleanupFailed, created, artifact, calls, pf, release_version, fn>>

\* lines 430-431
Main_CaptureVersionHash ==
  /\ pc = "cp_version"
  /\ \E ok \in BOOLEAN, rev \in BOOLEAN :
       IF ok /\ CanCheckout(src_branch)
         THEN /\ current' = src_branch
              /\ version_hash' = get_head_hash(src_branch, rev)
              /\ cmds' = cmds \o <<"git checkout", "git rev-parse">>
              /\ Goto("mvn_clean")
         ELSE /\ ToBranchHandler
              /\ cmds' = Append(cmds, "git checkout")
              /\ UNCHANGED <<current, version_hash>>
  /\ UNCHANGED <<args, head, tags, dirty, master_hash, ext, done, cleanupRun,
                 cleanupFailed, created, artifact, calls, pf, release_version, fn>>

\* line 432: run_mvn('clean') empties target/
Main_MvnClean ==
  /\ pc = "mvn_clean"
  /\ \E ok \in BOOLEAN :
       /\ artifact' = (artifact /\ ~ok)
       /\ IF ok THEN Goto("rb_master") ELSE ToBranchHandler
  /\ cmds' = Append(cmds, "mvn clean")
  /\ UNCHANGED <<args, repo, ckpt, ext, done, cleanupRun, cleanupFailed, created, calls, pf, release_version, fn>>

\* git.create_release_branch, git.py:41-44: checkout, pull --rebase, checkout -b.
\* n is the number of its commands that succeeded, moved whether the pull
\* brought new commits.
CreatePossible(b, n) ==
  /\ n >= 1 => CanCheckout(b)
  /\ n = 3 => CanCreate(release_branch(b, ReleaseVersion))

create_release_branch(b, n, moved) ==
  LET pulled == IF n >= 2 /\ moved THEN ResetTo(head, b, RemoteHead(b)) ELSE head
      rb     == release_branch(b, ReleaseVersion)
  IN  /\ current' = IF n = 3 THEN rb ELSE IF n >= 1 THEN b ELSE current
      /\ head' = IF n = 3 THEN WithBranch(pulled, rb, b) ELSE pulled
      /\ created' = IF n = 3 THEN created \cup {rb} ELSE created
      /\ cmds' = cmds \o Attempted(<<"git checkout", "git pull --rebase", "git checkout -b">>, n)

\* lines 433-434
Main_CreateMasterReleaseBranch ==
  /\ pc = "rb_master"
  /\ \E n \in 0..3, moved \in BOOLEAN :
       /\ CreatePossible(Master, n)
       /\ create_release_branch(Master, n, moved)
       /\ IF n = 3 THEN Goto("rb_src") ELSE ToBranchHandler
  /\ UNCHANGED <<args, tags, dirty, ckpt, ext, done, cleanupRun, cleanupFailed, artifact,
                 calls, pf, release_version, fn>>

\* lines 435-436, 441
Main_CreateSourceReleaseBranch ==
  /\ pc = "rb_src"
  /\ \E n \in 0..3, moved \in BOOLEAN :
       /\ CreatePossible(src_branch, n)
       /\ create_release_branch(src_branch, n, moved)
       /\ IF n = 3
            THEN /\ pc' = "remove_snapshot"
                 /\ success' = FALSE
                 /\ done' = Append(done, "BranchesCreated")
                 /\ UNCHANGED <<raised, status, failedAt>>
            ELSE /\ ToBranchHandler
                 /\ UNCHANGED done
  /\ UNCHANGED <<args, tags, dirty, ckpt, ext, cleanupRun, cleanupFailed, artifact, calls, pf, release_version, fn>>

\* mutant of Main_BranchCreationFailed: the handler prints the log and falls
\* through to line 441 instead of exiting
Main_BranchCreationFailed_FallsThrough ==
  /\ pc = "bc_failed"
  /\ pc' = "remove_snapshot"
  /\ cmds' = Append(cmds, "print_log")
  /\ UNCHANGED <<args, repo, ckpt, ext, success, raised, status, hist, artifact, calls, pf, release_version, fn>>

\* lines 437-439: the log is printed and the process exits with -1
Main_BranchCreationFailed ==
  /\ pc = "bc_failed"
  /\ pc' = "ended"
  /\ status' = "exit-1"
  /\ cmds' = Append(cmds, "print_log")
  /\ UNCHANGED <<args, repo, ckpt, ext, success, raised, hist, artifact, calls, pf, release_version, fn>>

(***************************************************************************)
(* __main__, lines 442-471: the pipeline inside try                        *)
(***************************************************************************)
\* lines 446-449: pom.xml then README.md are rewritten (n files written)
Main_RemoveSnapshot ==
  /\ pc = "remove_snapshot"
  /\ \E n \in 0..2 :
       /\ dirty' = (dirty \/ n >= 1)
       /\ cmds' = cmds \o Attempted(<<"rewrite pom.xml", "rewrite README.md">>, n)
       /\ IF n = 2 THEN Goto("commit_release") ELSE ToFinally("OSError")
  /\ UNCHANGED <<args, current, head, tags, ckpt, ext, done, cleanupRun, cleanupFailed,
                 created, artifact, calls, pf, release_version, fn>>

\* mutant of Main_CommitRelease: the release commit is made on the trunk
\* release branch
Main_CommitRelease_OnTrunk ==
  /\ pc = "commit_release"
  /\ \E ok \in BOOLEAN :
       IF ok
         THEN /\ head' = [head EXCEPT ![release_branch(Master, ReleaseVersion)] =
                                        Commit(@, "prepare release")]
              /\ dirty' = FALSE
              /\ done' = Append(done, "VersionCommitted")
              /\ Goto("check_issues")
         ELSE /\ ToFinally("RuntimeError")
              /\ UNCHANGED <<head, dirty, done>>
  /\ cmds' = cmds \o <<"git add", "git commit">>
  /\ UNCHANGED <<args, current, tags, ckpt, ext, cleanupRun, cleanupFailed, created, artifact,
                 calls, pf, release_version, fn>>

\* mutant of Main_CommitRelease: a failing commit is ignored and the pipeline
\* goes on
Main_CommitRelease_IgnoresFailure ==
  /\ pc = "commit_release"
  /\ \E ok \in BOOLEAN :
       /\ head' = IF ok THEN [head EXCEPT ![current] = Commit(@, "prepare release")] ELSE head
       /\ dirty' = IF ok THEN FALSE ELSE dirty
       /\ done' = IF ok THEN Append(done, "VersionCommitted") ELSE done
       /\ Goto("check_issues")
  /\ cmds' = cmds \o <<"git add", "git commit">>
  /\ UNCHANGED <<args, current, tags, ckpt, ext, cleanupRun, cleanupFailed, created, artifact,
                 calls, pf, release_version, fn>>

\* lines 450-452: git add, git add, git commit on the checked-out branch
Main_CommitRelease ==
  /\ pc = "commit_release"
  /\ \E ok \in BOOLEAN :
       IF ok
         THEN /\ head' = [head EXCEPT ![current] = Commit(@, "prepare release")]
              /\ dirty' = FALSE
              /\ done' = Append(done, "VersionCommitted")
              /\ Goto("check_issues")
         ELSE /\ ToFinally("RuntimeError")
              /\ UNCHANGED <<head, dirty, done>>
  /\ cmds' = cmds \o <<"git add", "git commit">>
  /\ UNCHANGED <<args, current, tags, ckpt, ext, cleanupRun, cleanupFailed, created, artifact,
                 calls, pf, release_version, fn>>

\* mutant of HasOpenedIssues: open issues are not looked at
HasOpenedIssues_Never(opened) == FALSE

\* github.py:78: len(opened_issues) > 0
HasOpenedIssues(opened) == opened > 0

\* lines 455-458: prompt, then the tracker is asked for the open issues
\* labelled with the version (github.py:55-81); check_opened_issues raises
\* NameError when there are some
Main_CheckIssues ==
  /\ pc = "check_issues"
  /\ \E confirmed \in BOOLEAN, answered \in BOOLEAN :
       IF ~confirmed
         THEN /\ ToFinally("KeyboardInterrupt")
              /\ UNCHANGED cmds
         ELSE /\ cmds' = Append(cmds, "list open issues")
              /\ IF ~answered
                   THEN ToFinally("GitHubError")
                   ELSE IF HasOpenedIssues(openIssues)
                          THEN ToFinally("NameError")
                          ELSE Goto("build")
  /\ UNCHANGED <<args, repo, ckpt, ext, done, cleanupRun, cleanupFailed, created, artifact,
                 calls, pf, release_version, fn>>

\* mutant of BuildTarget: the release is deployed in both modes
BuildTarget_AlwaysDeploy(dr) == "deploy"

\* build_release, lines 217-224: the maven target
BuildTarget(dr) == IF dr THEN "package" ELSE "deploy"

\* lines 219-221: tests
BuildTests(rt) == IF rt THEN "" ELSE "-DskipTests"

\* build_release, lines 217-224: the one command it hands to run_mvn
build_release(rt, dr) == "mvn clean " \o BuildTarget(dr) \o " " \o BuildTests(rt)

\* line 463: mvn clean <target>; the build empties target/ and, when it
\* succeeds, has or has not produced the release zip under the expected name
Main_BuildRelease ==
  /\ pc = "build"
  /\ \E ok \in BOOLEAN, produced \in BOOLEAN :
       /\ deployed' = (deployed \/ (ok /\ BuildTarget(dry_run) = "deploy"))
       /\ artifact' = (ok /\ produced)
       /\ IF ok THEN Goto("get_artifacts") ELSE ToFinally("RuntimeError")
  /\ cmds' = Append(cmds, build_release(run_tests, dry_run))
  /\ UNCHANGED <<args, repo, ckpt, pushed, uploaded, emailFile, mailSent, done, cleanupRun,
                 cleanupFailed, created, calls, pf, release_version, fn>>

\* mutant of ArtifactFound: the release zip is not looked for
ArtifactFound_Unchecked(isfile) == TRUE

\* get_artifacts, line 182: os.path.isfile(artifact_path)
ArtifactFound(isfile) == isfile

\* line 464: get_artifacts raises RuntimeError when the zip is not there
Main_GetArtifacts ==
  /\ pc = "get_artifacts"
  /\ IF ArtifactFound(artifact) THEN Goto("checksums") ELSE ToFinally("RuntimeError")
  /\ UNCHANGED <<args, repo, ckpt, ext, done, cleanupRun, cleanupFailed, created, artifact,
                 cmds, calls, pf, release_version, fn>>

\* line 465: generate_checksums runs shasum through os.system
Main_GenerateChecksums ==
  /\ pc = "checksums"
  /\ \E ok \in BOOLEAN :
       IF ok /\ artifact
         THEN /\ done' = Append(done, "Built")
              /\ Goto("co_master_rb")
         ELSE /\ ToFinally("RuntimeError")
              /\ UNCHANGED done
  /\ cmds' = Append(cmds, "shasum")
  /\ UNCHANGED <<args, repo, ckpt, ext, cleanupRun, cleanupFailed, created, artifact,
                 calls, pf, release_version, fn>>

\* line 471: git.checkout(release_branch('master', release_version)); the bare
\* name release_branch is looked up in the module namespace. The statements
\* of lines 472-513 follow it.
Main_CheckoutMasterReleaseBranch ==
  /\ pc = "co_master_rb"
  /\ IF "release_branch" \in ModuleGlobals
       THEN \E ok \in BOOLEAN :
              IF ok /\ CanCheckout(release_branch(Master, ReleaseVersion))
                THEN /\ current' = release_branch(Master, ReleaseVersion)
                     /\ Goto("update_master_doc")
                ELSE /\ ToFinally("RuntimeError")
                     /\ UNCHANGED current
       ELSE /\ ToFinally("NameError")
            /\ UNCHANGED current
  /\ UNCHANGED <<args, head, tags, dirty, ckpt, ext, done, cleanupRun, cleanupFailed,
                 created, artifact, cmds, calls, pf, release_version, fn>>

(***************************************************************************)
(* __main__, lines 514-539: the finally clause                             *)
(***************************************************************************)
\* mutant of NeedsReset: only a dry run is reset
NeedsReset_OnlyDryRun == dry_run

\* lines 515-516, 525-527: which cleanup applies
NeedsReset == ~success \/ dry_run

\* mutant of LogPrinted: the finally clause does not print the log
LogPrinted_Never == FALSE

\* lines 515-516: logger.print_log() when success is not set
LogPrinted == ~success

Main_Finally ==
  /\ pc = "finally"
  /\ cmds' = IF LogPrinted THEN Append(cmds, "print_log") ELSE cmds
  /\ IF NeedsReset THEN Goto("fin_reset_master") ELSE Goto("fin_tail")
  /\ UNCHANGED <<args, repo, ckpt, ext, done, cleanupRun, cleanupFailed, created, artifact,
                 calls, pf, release_version, fn>>

\* mutant of CheckoutAndReset: the branch is checked out but not reset
CheckoutAndReset_NoReset(b, hash, n) ==
  /\ n >= 1 => CanCheckout(b)
  /\ n = 2 => hash # ErrorOutput
  /\ current' = IF n >= 1 THEN b ELSE current
  /\ cmds' = cmds \o Attempted(<<"git checkout", "git reset --hard">>, n)
  /\ UNCHANGED <<head, dirty>>

\* git checkout b; git reset --hard hash (n commands succeeded); the reset
\* exits non-zero when hash is not a revision
CheckoutAndReset(b, hash, n) ==
  /\ n >= 1 => CanCheckout(b)
  /\ n = 2 => hash # ErrorOutput
  /\ current' = IF n >= 1 THEN b ELSE current
  /\ head' = IF n = 2 THEN ResetTo(head, b, hash) ELSE head
  /\ dirty' = IF n = 2 THEN FALSE ELSE dirty
  /\ cmds' = cmds \o Attempted(<<"git checkout", "git reset --hard">>, n)

\* lines 517-518 and 528-529
Main_ResetMaster ==
  /\ pc = "fin_reset_master"
  /\ \E n \in 0..2 :
       /\ CheckoutAndReset(Master, master_hash, n)
       /\ cleanupRun' = cleanupRun \cup {"checkout master"}
                         \cup (IF n >= 1 THEN {"reset master"} ELSE {})
       /\ cleanupFailed' = (cleanupFailed \/ n < 2)
       /\ IF n = 2 THEN Goto("fin_reset_src") ELSE OutOfFinally("RuntimeError")
  /\ UNCHANGED <<args, tags, ckpt, ext, done, created, artifact, calls, pf, release_version, fn>>

\* lines 519-520 and 530-531
Main_ResetSource ==
  /\ pc = "fin_reset_src"
  /\ \E n \in 0..2 :
       /\ CheckoutAndReset(src_branch, version_hash, n)
       /\ cleanupRun' = cleanupRun \cup {"checkout source"}
                         \cup (IF n >= 1 THEN {"reset source"} ELSE {})
       /\ cleanupFailed' = (cleanupFailed \/ n < 2)
       /\ IF n = 2 THEN Goto("fin_tag") ELSE OutOfFinally("RuntimeError")
  /\ UNCHANGED <<args, tags, ckpt, ext, done, created, artifact, calls, pf, release_version, fn>>

\* tags after `git tag -d t`
WithoutTag(tg, t) == [x \in (DOMAIN tg) \ {t} |-> tg[x]]

\* lines 521-524: the failure path swallows RuntimeError; line 532: the
\* dry-run path does not
TagDeleteGuarded == ~success

Main_DeleteTag ==
  /\ pc = "fin_tag"
  /\ cleanupRun' = cleanupRun \cup {"tag -d"}
  /\ \E ok \in BOOLEAN :
       IF ok /\ TagName(ReleaseVersion) \in DOMAIN tags
         THEN /\ tags' = WithoutTag(tags, TagName(ReleaseVersion))
              /\ cmds' = Append(cmds, "git tag -d")
              /\ Goto("fin_tail")
              /\ UNCHANGED cleanupFailed
         ELSE /\ UNCHANGED tags
              /\ cleanupFailed' = (cleanupFailed \/ TagName(ReleaseVersion) \in DOMAIN tags)
              /\ IF TagDeleteGuarded
                   THEN /\ cmds' = cmds \o <<"git tag -d", "except RuntimeError: pass">>
                        /\ Goto("fin_tail")
                   ELSE /\ cmds' = Append(cmds, "git tag -d")
                        /\ OutOfFinally("RuntimeError")
  /\ UNCHANGED <<args, current, head, dirty, ckpt, ext, done, created, artifact, calls, pf, release_version, fn>>

\* git branch -D of both release branches (n deleted), then git checkout
\* src_branch when both were deleted and co says the checkout succeeded
DeleteBranchesAndReturn(n, co) ==
  LET rbm == release_branch(Master, ReleaseVersion)
      rbs == release_branch(src_branch, ReleaseVersion)
      h1  == IF n >= 1 THEN WithoutBranch(head, rbm) ELSE head
      h2  == IF n = 2 THEN WithoutBranch(h1, rbs) ELSE h1
  IN  /\ n >= 1 => (rbm \in Branches /\ current # rbm)
      /\ n = 2 => (rbs \in Branches /\ current # rbs)
      /\ co => n = 2
      /\ head' = h2
      /\ current' = IF co THEN src_branch ELSE current
      /\ cleanupRun' = cleanupRun \cup {"branch -D master"}
                         \cup (IF n >= 1 THEN {"branch -D source"} ELSE {})
                         \cup (IF n = 2 THEN {"final checkout"} ELSE {})
      /\ cmds' = cmds \o Attempted(<<"git branch -D", "git branch -D", "git checkout">>, n)

\* lines 535-539: release_branch is again looked up in the module namespace;
\* when the clause ends normally a pending exception is re-raised
Main_FinallyTail ==
  /\ pc = "fin_tail"
  /\ pc' = "ended"
  /\ IF "release_branch" \in ModuleGlobals
       THEN \E n \in 0..2, co \in BOOLEAN :
              /\ DeleteBranchesAndReturn(n, co)
              /\ cleanupFailed' = (cleanupFailed \/ ~co)
              /\ raised' = IF co THEN raised ELSE "RuntimeError"
              /\ status' = IF co /\ raised = "none" THEN "exit0" ELSE "traceback"
       ELSE /\ raised' = "NameError"
            /\ status' = "traceback"
            /\ UNCHANGED <<current, head, cleanupRun, cleanupFailed, cmds>>
  /\ UNCHANGED <<args, tags, dirty, ckpt, ext, success, done, failedAt, created, artifact,
                 calls, pf, release_version, fn>>

(***************************************************************************)
(* The program                                                             *)
(***************************************************************************)
Next ==
  \/ Main_ModuleInit
  \/ Main_Check
  \/ Main_MasterCheck
  \/ Main_PublishPrecheck
  \/ Main_ReadDescriptor
  \/ Main_CaptureMasterHash
  \/ Main_CaptureVersionHash
  \/ Main_MvnClean
  \/ Main_CreateMasterReleaseBranch
  \/ Main_CreateSourceReleaseBranch
  \/ Main_BranchCreationFailed
  \/ Main_RemoveSnapshot
  \/ Main_CommitRelease
  \/ Main_CheckIssues
  \/ Main_BuildRelease
  \/ Main_GetArtifacts
  \/ Main_GenerateChecksums
  \/ Main_CheckoutMasterReleaseBranch
  \/ Main_Finally
  \/ Main_ResetMaster
  \/ Main_ResetSource
  \/ Main_DeleteTag
  \/ Main_FinallyTail

Spec == Init /\ [][Next]_vars

(***************************************************************************)
(* The operations gated by the dry-run flag, called as the drivers they    *)
(* are: git.push, publish_artifacts and announcement.send_email, and the   *)
(* operations of the merge and tag steps, git.merge and git.tag_release.   *)
(* __main__ calls them at lines 482-502 with the process-wide dry_run and  *)
(* mail flags; those calls come after line 471, which raises in every run, *)
(* so this specification calls the operations directly, on the repository  *)
(* as the version commit leaves it. raised is the outcome of the last call.*)
(***************************************************************************)
MaxCalls == 3

\* generate_checksums, lines 190-199: the checksum file, then the artifact
Artifacts == <<"artifact.zip.sha1.txt", "artifact.zip">>

\* mutant of PushExecutes: the push ignores the dry-run flag
PushExecutes_Always(dr) == TRUE

\* git.py:86
PushExecutes(dr) == ~dr

\* git.push, git.py:85-90: push of both branches, then of the tag
\* (n commands succeeded)
push(dr, n) ==
  pushed' = pushed
              \cup (IF PushExecutes(dr) /\ n >= 1 THEN {src_branch, Master} ELSE {})
              \cup (IF PushExecutes(dr) /\ n = 2 THEN {TagName(ReleaseVersion)} ELSE {})

\* git push <remote> v<version> exits non-zero when the tag does not exist
CanPushTag == TagName(ReleaseVersion) \in DOMAIN tags

\* names that git.py binds to functions (its def statements); line 19 binds
\* `run` to the module release.utils.run
GitFunctions ==
  {"get_head_hash", "get_current_branch", "fetch", "create_release_branch",
   "add_pending_files", "commit_release", "commit_master", "commit_snapshot",
   "tag_release", "checkout", "merge", "push", "release_branch"}

\* git.merge, git.py:79-81: checkout(src_branch), then run(...) is called
\* where the other operations call run.run(...); n commands succeeded
merge(b, n) ==
  LET rb == release_branch(b, ReleaseVersion)
  IN  /\ n >= 1 => CanCheckout(b)
      /\ current' = IF n >= 1 THEN b ELSE current
      /\ IF n = 0
           THEN /\ raised' = "RuntimeError"
                /\ UNCHANGED head
           ELSE IF "run" \notin GitFunctions
                  THEN /\ raised' = "TypeError"
                       /\ UNCHANGED head
                  ELSE IF n = 2 /\ rb \in Branches
                         THEN /\ raised' = "none"
                              /\ head' = ResetTo(head, b, head[rb])
                         ELSE /\ raised' = "RuntimeError"
                              /\ UNCHANGED head

\* git.tag_release, git.py:69-70: git tag -a v<version> on the current
\* commit; exits non-zero when the tag exists
tag_release(ok) ==
  IF ok /\ TagName(ReleaseVersion) \notin DOMAIN tags
    THEN /\ tags' = [t \in (DOMAIN tags) \cup {TagName(ReleaseVersion)} |->
                       IF t = TagName(ReleaseVersion) THEN head[current] ELSE tags[t]]
         /\ raised' = "none"
    ELSE /\ raised' = "RuntimeError"
         /\ UNCHANGED tags

\* build_release.py:236
UploadExecutes(dr) == ~dr

\* publish_artifacts, lines 233-241: one upload per file, in order
\* (n uploads succeeded)
publish_artifacts(dr, n) ==
  uploaded' = uploaded
                \cup (IF UploadExecutes(dr) THEN {Artifacts[i] : i \in 1..n} ELSE {})

\* mutant of SendExecutes: the mail flag is not looked at
SendExecutes_IgnoresMail(dr, m) == ~dr

\* announcement.py:186
SendExecutes(dr, m) == m /\ ~dr

\* announcement.send_email, announcement.py:174-192: the message is written
\* to target/email.txt (lines 184-185), then handed to the SMTP server
\* (lines 187-189) or printed (lines 191-192); written, sent: the step
\* succeeded
send_email(dr, m, written, sent) ==
  /\ emailFile' = (emailFile \/ written)
  /\ mailSent' = (mailSent \/ (written /\ SendExecutes(dr, m) /\ sent))
  /\ cmds' = cmds \o <<"write email.txt">>
                  \o (IF ~written THEN <<>>
                      ELSE IF SendExecutes(dr, m) THEN <<"sendmail">> ELSE <<"print email">>)

\* line 495: git.push(remote, src_branch, release_version, dry_run)
Ops_Push ==
  /\ pc = "driver"
  /\ Len(calls) < MaxCalls
  /\ \E n \in 0..2 :
       /\ n = 2 => (dry_run \/ CanPushTag)
       /\ push(dry_run, n)
       /\ raised' = IF ~dry_run /\ n < 2 THEN "RuntimeError" ELSE "none"
  /\ calls' = Append(calls, "push")
  /\ UNCHANGED <<args, repo, ckpt, pc, success, status, hist, artifact, cmds, pf, release_version, fn, deployed,
                 uploaded, emailFile, mailSent>>

\* line 497
Ops_PublishArtifacts ==
  /\ pc = "driver"
  /\ Len(calls) < MaxCalls
  /\ \E n \in 0..Len(Artifacts) :
       /\ publish_artifacts(dry_run, n)
       /\ raised' = IF ~dry_run /\ n < Len(Artifacts) THEN "RuntimeError" ELSE "none"
  /\ calls' = Append(calls, "publish_artifacts")
  /\ UNCHANGED <<args, repo, ckpt, pc, success, status, hist, artifact, cmds, pf, release_version, fn, deployed,
                 pushed, emailFile, mailSent>>

\* line 502
Ops_SendEmail ==
  /\ pc = "driver"
  /\ Len(calls) < MaxCalls
  /\ \E written \in BOOLEAN, sent \in BOOLEAN :
       /\ send_email(dry_run, mail, written, sent)
       /\ raised' = IF ~written THEN "OSError"
                     ELSE IF mail /\ ~dry_run /\ ~sent THEN "SMTPException" ELSE "none"
  /\ calls' = Append(calls, "send_email")
  /\ UNCHANGED <<args, repo, ckpt, pc, success, status, hist, artifact, pf, release_version, fn,
                 deployed, pushed, uploaded>>

\* lines 482 and 492: git.merge(src_branch, release_version) and
\* git.merge('master', release_version)
Ops_Merge ==
  /\ pc = "driver"
  /\ Len(calls) < MaxCalls
  /\ \E b \in {src_branch, Master}, n \in 0..2 :
       /\ merge(b, n)
       /\ calls' = Append(calls, IF b = Master THEN "merge master" ELSE "merge source")
  /\ UNCHANGED <<args, tags, dirty, ckpt, ext, pc, success, status, hist, artifact, cmds, pf, release_version, fn>>

\* line 484: git.tag_release(release_version), in both modes
Ops_TagRelease ==
  /\ pc = "driver"
  /\ Len(calls) < MaxCalls
  /\ \E ok \in BOOLEAN : tag_release(ok)
  /\ calls' = Append(calls, "tag_release")
  /\ UNCHANGED <<args, current, head, dirty, ckpt, ext, pc, success, status, hist, artifact,
                 cmds, pf, release_version, fn>>

InitOps ==
  /\ pc = "driver"
  /\ dry_run \in BOOLEAN
  /\ mail \in BOOLEAN
  /\ src_branch = "1.x"
  /\ check = FALSE
  /\ startBranch = "1.x"
  /\ awsCreds = TRUE
  /\ javaHome = TRUE
  /\ run_tests = TRUE
  /\ pom = <<SnapshotLine(ReleaseVersion)>>
  /\ release_version = ReleaseVersion
  /\ fn = NoFn
  /\ openIssues = 0
  /\ artifact = TRUE
  /\ current = release_branch("1.x", ReleaseVersion)
  /\ head = [b \in SourceBranches \cup {release_branch(s, ReleaseVersion) : s \in SourceBranches}
               |-> IF b \in SourceBranches THEN PreRunHead(b)
                   ELSE IF b = release_branch(Master, ReleaseVersion) THEN PreRunHead(Master)
                   ELSE Commit(PreRunHead("1.x"), "prepare release")]
  /\ tags = NoTags
  /\ dirty = FALSE
  /\ master_hash = NoHash
  /\ version_hash = NoHash
  /\ success = FALSE
  /\ raised = "none"
  /\ status = "running"
  /\ deployed = FALSE
  /\ pushed = {}
  /\ uploaded = {}
  /\ emailFile = FALSE
  /\ mailSent = FALSE
  /\ done = <<>>
  /\ cleanupRun = {}
  /\ failedAt = "none"
  /\ cleanupFailed = FALSE
  /\ created = {}
  /\ cmds = <<>>
  /\ calls = <<>>
  /\ pf = PfIdle

NextOps ==
  \/ Ops_Push
  \/ Ops_PublishArtifacts
  \/ Ops_SendEmail
  \/ Ops_Merge
  \/ Ops_TagRelease

SpecOps == InitOps /\ [][NextOps]_vars

(***************************************************************************)
(* updater.process_file, updater.py:42-61, one action per statement, on a  *)
(* file of at most MaxLines lines and with any callback                    *)
(***************************************************************************)
Files == UNION {[1..n -> Lines] : n \in 0..MaxLines}

\* the file system after path p was written with content c / was removed
WithFile(fs, p, c) == [x \in (DOMAIN fs) \cup {p} |-> IF x = p THEN c ELSE fs[x]]
WithoutFile(fs, p) == [x \in (DOMAIN fs) \ {p} |-> fs[x]]

\* mutant of Modified: every file counts as modified
Modified_Always(modified, new_line, line) == TRUE

\* mutant of Modified: only the last line read counts
Modified_LastLineOnly(modified, new_line, line) == new_line # line

\* updater.py:49
Modified(modified, new_line, line) == modified \/ (new_line # line)

mainVars == <<args, repo, ckpt, ext, ctl, hist, artifact, cmds, calls, release_version, fn>>

\* lines 43-45: the temporary file is created and opened for writing
File_Mkstemp ==
  /\ pf.pc = "mkstemp"
  /\ pf' = [pf EXCEPT !.pc = "copy", !.fs = WithFile(@, TmpPath, <<>>), !.modified = FALSE]
  /\ UNCHANGED mainVars

\* lines 47-50: one line is read, passed to the callback and written
File_CopyLine ==
  /\ pf.pc = "copy"
  /\ pf.i < Len(pf.fs[FilePath])
  /\ LET line     == pf.fs[FilePath][pf.i + 1]
         new_line == pf.line_callback[line]
     IN  pf' = [pf EXCEPT !.i = @ + 1,
                          !.modified = Modified(@, new_line, line),
                          !.fs = WithFile(@, TmpPath, Append(@[TmpPath], new_line))]
  /\ UNCHANGED mainVars

\* lines 51-52 and 58: both files are closed, modified decides
File_Close ==
  /\ pf.pc = "copy"
  /\ pf.i = Len(pf.fs[FilePath])
  /\ pf' = [pf EXCEPT !.pc = IF pf.modified THEN "remove_original" ELSE "remove_temp"]
  /\ UNCHANGED mainVars

\* line 54: os.remove(file_path)
File_RemoveOriginal ==
  /\ pf.pc = "remove_original"
  /\ pf' = [pf EXCEPT !.pc = "move", !.fs = WithoutFile(@, FilePath), !.replaced = TRUE]
  /\ UNCHANGED mainVars

\* lines 56-57: shutil.move(abs_path, file_path); return True
File_Move ==
  /\ pf.pc = "move"
  /\ pf' = [pf EXCEPT !.pc = "returned", !.ret = "True",
                      !.fs = WithoutFile(WithFile(@, FilePath, @[TmpPath]), TmpPath)]
  /\ UNCHANGED mainVars

\* lines 60-61: os.remove(abs_path); return False
File_RemoveTemp ==
  /\ pf.pc = "remove_temp"
  /\ pf' = [pf EXCEPT !.pc = "returned", !.ret = "False", !.fs = WithoutFile(@, TmpPath)]
  /\ UNCHANGED mainVars

\* the process is killed between two statements of lines 43-61: the files
\* stay as they are
File_Crash ==
  /\ pf.pc \in {"copy", "remove_original", "move", "remove_temp"}
  /\ pf' = [pf EXCEPT !.pc = "crashed"]
  /\ UNCHANGED mainVars

InitFile ==
  /\ pc = "file"
  /\ dry_run = TRUE
  /\ mail = FALSE
  /\ src_branch = "1.x"
  /\ check = FALSE
  /\ startBranch = "1.x"
  /\ awsCreds = TRUE
  /\ javaHome = TRUE
  /\ run_tests = TRUE
  /\ pom = <<SnapshotLine(ReleaseVersion)>>
  /\ release_version = NoVersion
  /\ fn = NoFn
  /\ openIssues = 0
  /\ artifact = FALSE
  /\ current = "1.x"
  /\ head = [b \in SourceBranches |-> PreRunHead(b)]
  /\ tags = NoTags
  /\ dirty = FALSE
  /\ master_hash = NoHash
  /\ version_hash = NoHash
  /\ success = FALSE
  /\ raised = "none"
  /\ status = "running"
  /\ deployed = FALSE
  /\ pushed = {}
  /\ uploaded = {}
  /\ emailFile = FALSE
  /\ mailSent = FALSE
  /\ done = <<>>
  /\ cleanupRun = {}
  /\ failedAt = "none"
  /\ cleanupFailed = FALSE
  /\ created = {}
  /\ cmds = <<>>
  /\ calls = <<>>
  /\ \E content \in Files, cb \in Callbacks :
       pf = [pc |-> "mkstemp", fs |-> [p \in {FilePath} |-> content], line_callback |-> cb,
             orig |-> content, i |-> 0, modified |-> FALSE, replaced |-> FALSE, ret |-> "none"]

NextFile ==
  \/ File_Mkstemp
  \/ File_CopyLine
  \/ File_Close
  \/ File_RemoveOriginal
  \/ File_Move
  \/ File_RemoveTemp
  \/ File_Crash

SpecFile == InitFile /\ [][NextFile]_vars

(***************************************************************************)
(* release/documentation/doc_update.py: the two rewrites of pom.xml        *)
(***************************************************************************)
MaxPomLines == 2

Versions == {"2.5.0", "2.5.1"}

\* lines a manifest is made of: the project's version element, version
\* elements of dependencies, another element
PomLines ==
  {ArtifactIdLine}
    \cup {SnapshotLine(v) : v \in Versions}
    \cup {Indented(VersionLine(v)) : v \in Versions}
    \cup {Indented(SnapshotLine(v)) : v \in Versions}

Manifests == UNION {[1..n -> PomLines] : n \in 0..MaxPomLines}

RECURSIVE Replace(_, _, _)
\* str.replace(old, new): every occurrence of old, found from left to right
\* and not overlapping, is replaced
Replace(s, old, new) ==
  IF Len(s) < Len(old)
    THEN s
    ELSE IF SubSeq(s, 1, Len(old)) = old
           THEN new \o Replace(SubSeq(s, Len(old) + 1, Len(s)), old, new)
           ELSE <<Head(s)>> \o Replace(Tail(s), old, new)

\* updater.process_file(file, callback), updater.py:42-61, as a function of
\* the content: the callback's result for every line, in order
process_file(content, callback) == [k \in 1..Len(content) |-> callback[content[k]]]

\* the lines of a file
LinesOf(content) == {content[k] : k \in 1..Len(content)}

\* doc_update.py:23-30
remove_maven_snapshot(content, release) ==
  LET pattern == SnapshotLine(release)
      replacement == VersionLine(release)
      callback == [line \in LinesOf(content) |-> Replace(line, pattern, replacement)]
  IN  process_file(content, callback)

\* doc_update.py:34-41
add_maven_snapshot(content, release, snapshot) ==
  LET pattern == VersionLine(release)
      replacement == SnapshotLine(snapshot)
      callback == [line \in LinesOf(content) |-> Replace(line, pattern, replacement)]
  IN  process_file(content, callback)

otherVars == <<args, repo, ckpt, ext, ctl, hist, artifact, cmds, calls, pf, release_version>>

\* remove_maven_snapshot(POM_FILE, release_version), build_release.py:447
Doc_RemoveSnapshot ==
  /\ fn.pc = "remove"
  /\ fn' = [fn EXCEPT !.pc = "add", !.file = remove_maven_snapshot(@, fn.release)]
  /\ UNCHANGED otherVars

\* add_maven_snapshot(POM_FILE, release_version, snapshot_version),
\* build_release.py:486
Doc_AddSnapshot ==
  /\ fn.pc = "add"
  /\ fn' = [fn EXCEPT !.pc = "done", !.file = add_maven_snapshot(@, fn.release, fn.snapshot)]
  /\ UNCHANGED otherVars

\* every variable but fn, pc and release_version, at rest
Rest ==
  /\ dry_run = TRUE
  /\ mail = FALSE
  /\ src_branch = "1.x"
  /\ check = FALSE
  /\ startBranch = "1.x"
  /\ awsCreds = TRUE
  /\ javaHome = TRUE
  /\ run_tests = TRUE
  /\ pom = <<SnapshotLine(ReleaseVersion)>>
  /\ openIssues = 0
  /\ artifact = FALSE
  /\ current = "1.x"
  /\ head = [b \in SourceBranches |-> PreRunHead(b)]
  /\ tags = NoTags
  /\ dirty = FALSE
  /\ master_hash = NoHash
  /\ version_hash = NoHash
  /\ success = FALSE
  /\ raised = "none"
  /\ status = "running"
  /\ deployed = FALSE
  /\ pushed = {}
  /\ uploaded = {}
  /\ emailFile = FALSE
  /\ mailSent = FALSE
  /\ done = <<>>
  /\ cleanupRun = {}
  /\ failedAt = "none"
  /\ cleanupFailed = FALSE
  /\ created = {}
  /\ cmds = <<>>
  /\ calls = <<>>
  /\ pf = PfIdle

InitDoc ==
  /\ Rest
  /\ pc = "doc"
  /\ release_version = NoVersion
  /\ \E content \in Manifests, release \in Versions, snapshot \in Versions :
       fn = [pc |-> "remove", pom |-> content, file |-> content, release |-> release,
             snapshot |-> snapshot]

NextDoc ==
  \/ Doc_RemoveSnapshot
  \/ Doc_AddSnapshot

SpecDoc == InitDoc /\ [][NextDoc]_vars

(***************************************************************************)
(* guess_snapshot, build_release.py:134-138: a version is a sequence of    *)
(* characters                                                              *)
(***************************************************************************)
MaxDigits == 2

DigitChars == <<"0", "1", "2", "3", "4", "5", "6", "7", "8", "9">>
IsDigit(c) == \E d \in 1..10 : DigitChars[d] = c
DigitValue(c) == (CHOOSE d \in 1..10 : DigitChars[d] = c) - 1

\* the digits the components of the versions tried are written with
InputDigits == {"0", "1", "9"}
Components == UNION {[1..n -> InputDigits] : n \in 1..MaxDigits}

RECURSIVE findall_digits(_, _)
\* re.findall(r'\d+', version), strings.py:27: the maximal runs of digits,
\* from left to right; run is the run being read
findall_digits(s, run) ==
  IF s = <<>>
    THEN IF run = <<>> THEN <<>> ELSE <<run>>
    ELSE IF IsDigit(Head(s))
           THEN findall_digits(Tail(s), Append(run, Head(s)))
           ELSE (IF run = <<>> THEN <<>> ELSE <<run>>) \o findall_digits(Tail(s), <<>>)

RECURSIVE int(_)
\* int(text) for a run of digits
int(ds) ==
  IF ds = <<>> THEN 0 ELSE int(SubSeq(ds, 1, Len(ds) - 1)) * 10 + DigitValue(ds[Len(ds)])

RECURSIVE str(_)
\* '%s' % n for an integer n >= 0
str(n) ==
  IF n < 10 THEN <<DigitChars[n + 1]>> ELSE str(n \div 10) \o <<DigitChars[(n % 10) + 1]>>

\* strings.py:26-27
split_version_to_digits(version) ==
  LET groups == findall_digits(version, <<>>)
  IN  [k \in 1..Len(groups) |-> int(groups[k])]

\* build_release.py:134-138
guess_snapshot(version) ==
  LET digits == split_version_to_digits(version)
      source == str(digits[1]) \o <<".">> \o str(digits[2]) \o <<".">> \o str(digits[3])
      destination ==
        str(digits[1]) \o <<".">> \o str(digits[2]) \o <<".">> \o str(digits[3] + 1)
  IN  Replace(version, source, destination)

\* build_release.py:415
Guess_Call ==
  /\ fn.pc = "call"
  /\ fn' = [fn EXCEPT !.pc = "returned", !.ret = guess_snapshot(fn.version)]
  /\ UNCHANGED otherVars

InitGuess ==
  /\ Rest
  /\ pc = "guess"
  /\ release_version = NoVersion
  /\ \E x \in Components, y \in Components, z \in Components :
       fn = [pc |-> "call", x |-> x, y |-> y, z |-> z,
             version |-> x \o <<".">> \o y \o <<".">> \o z, ret |-> <<>>]

NextGuess == Guess_Call

SpecGuess == InitGuess /\ [][NextGuess]_vars

(***************************************************************************)
(* release/announcement/announcement.py: prepare_email. A text is a        *)
(* sequence of lines, a line the sequence of the pieces it is formatted    *)
(* from.                                                                   *)
(***************************************************************************)
MaxIssues == 2

Categories == {"issues_bug", "issues_update", "issues_new", "issues_doc"}

\* the titles prepare_email passes to the formatters, lines 101-125
Title(c) ==
  CASE c = "issues_bug" -> "Fix"
    [] c = "issues_update" -> "Update"
    [] c = "issues_new" -> "New"
    [] c = "issues_doc" -> "Doc"

\* issues as the tracker returns them: number, title, html_url
Issues == {[number |-> n, title |-> "title " \o n, html_url |-> "https://issues/" \o n] :
             n \in {"1", "2"}}

\* an argument of prepare_email: None, or a list of issues
None == [none |-> TRUE, list |-> <<>>]
IssueArgs ==
  {None} \cup {[none |-> FALSE, list |-> l] :
                l \in UNION {[1..n -> Issues] : n \in 0..MaxIssues}}

\* `issues is not None and len(issues) > 0`, lines 101, 108, 115, 122, 199, 211
Listed(issues) == ~issues.none /\ Len(issues.list) > 0

\* format_issues_plain, lines 196-204
format_issues_plain(issues, title) ==
  IF Listed(issues)
    THEN <<<<title, ":">>>>
           \o [k \in 1..Len(issues.list) |->
                <<" * [", issues.list[k].number, "] - ", issues.list[k].title, " (",
                  issues.list[k].html_url, ")">>]
    ELSE <<>>

\* format_issues_html, lines 208-217
format_issues_html(issues, title) ==
  IF Listed(issues)
    THEN <<<<"<h2>", title, "</h2>">>, <<"<ul>">>>>
           \o [k \in 1..Len(issues.list) |->
                <<"<li>[<a href=", issues.list[k].html_url, ">", issues.list[k].number,
                  "</a>] - ", issues.list[k].title>>]
           \o <<<<"</ul>">>>>
    ELSE <<>>

\* mutant of total_issues: only the bug category is counted
total_issues_BugsOnly(a) ==
  IF Listed(a["issues_bug"]) THEN Len(a["issues_bug"].list) ELSE 0

\* total_issues after lines 101-127
total_issues(a) ==
  (IF Listed(a["issues_bug"]) THEN Len(a["issues_bug"].list) ELSE 0)
    + (IF Listed(a["issues_update"]) THEN Len(a["issues_update"].list) ELSE 0)
    + (IF Listed(a["issues_new"]) THEN Len(a["issues_new"].list) ELSE 0)
    + (IF Listed(a["issues_doc"]) THEN Len(a["issues_doc"].list) ELSE 0)

\* lines 129-135
plain_empty_message(a) ==
  IF total_issues(a) > 0 THEN <<>> ELSE <<<<"No issue listed for this release">>>>
html_empty_message(a) ==
  IF total_issues(a) > 0 THEN <<>> ELSE <<<<"<p>No issue listed for this release</p>">>>>

\* the message templates email_template.txt and email_template.html: fixed
\* lines, and one place for each of the notice and the four sections
Fixed(t) == [field |-> "", line |-> <<t>>]
Field(f) == [field |-> f, line |-> <<>>]
email_template ==
  <<Fixed("release announcement"), Field("empty_message"), Field("issues_bug"),
    Field("issues_update"), Field("issues_new"), Field("issues_doc"), Fixed("footer")>>

RECURSIVE Substitute(_, _)
\* template % values, lines 139 and 150
Substitute(template, values) ==
  IF template = <<>>
    THEN <<>>
    ELSE (IF Head(template).field = "" THEN <<Head(template).line>>
                                      ELSE values[Head(template).field])
           \o Substitute(Tail(template), values)

\* prepare_email, lines 81-171: the two parts of the message
prepare_email(a) ==
  [text |-> Substitute(email_template,
                       [f \in Categories \cup {"empty_message"} |->
                          IF f = "empty_message" THEN plain_empty_message(a)
                                                 ELSE format_issues_plain(a[f], Title(f))]),
   html |-> Substitute(email_template,
                       [f \in Categories \cup {"empty_message"} |->
                          IF f = "empty_message" THEN html_empty_message(a)
                                                 ELSE format_issues_html(a[f], Title(f))])]

\* build_release.py:499
Mail_Prepare ==
  /\ fn.pc = "call"
  /\ fn' = [fn EXCEPT !.pc = "returned", !.msg = prepare_email(fn.issues)]
  /\ UNCHANGED otherVars

InitMail ==
  /\ Rest
  /\ pc = "mail"
  /\ release_version = ReleaseVersion
  /\ \E a \in [Categories -> IssueArgs] :
       fn = [pc |-> "call", issues |-> a, msg |-> [text |-> <<>>, html |-> <<>>]]

NextMail == Mail_Prepare

SpecMail == InitMail /\ [][NextMail]_vars

(***************************************************************************)
(* Properties                                                              *)
(***************************************************************************)
Range(q) == {q[i] : i \in DOMAIN q}
IsPrefix(q, r) == Len(q) <= Len(r) /\ q = SubSeq(r, 1, Len(q))
FirstSteps(k) == SubSeq(StepOrder, 1, k)

MasterReleaseBranch == release_branch(Master, ReleaseVersion)
SourceReleaseBranch == release_branch(src_branch, ReleaseVersion)

\* positions inside try at which a command, a prompt or a gate can fail
TrySteps ==
  {"remove_snapshot", "commit_release", "check_issues", "build", "get_artifacts", "checksums"}
\* positions of the finally clause
FinallySteps == {"finally", "fin_reset_master", "fin_reset_src", "fin_tag", "fin_tail"}

AtCheckpoint == head[Master] = master_hash /\ head[src_branch] = version_hash
AtPreRunHeads ==
  head[Master] = PreRunHead(Master) /\ head[src_branch] = PreRunHead(src_branch)
BothCaptured == master_hash # NoHash /\ version_hash # NoHash
NoExternalEffect == ~deployed /\ pushed = {} /\ uploaded = {} /\ ~mailSent
\* the commits a head can be at when the run has committed nothing
HeadsWithoutRunCommit ==
  {PreRunHead(b) : b \in SourceBranches} \cup {RemoteHead(b) : b \in SourceBranches}
    \cup {"old"}

C2_RollbackAfterFailure ==
  (pc = "ended" /\ failedAt \in TrySteps /\ ~cleanupFailed) =>
    (/\ AtCheckpoint
     /\ MasterReleaseBranch \notin Branches
     /\ SourceReleaseBranch \notin Branches)

\* C3: with dry_run set, whatever driver operations are called, nothing is
\* pushed, nothing is uploaded and no mail is sent.
C3_DryRunNoExternalEffects ==
  dry_run => (pushed = {} /\ uploaded = {} /\ ~mailSent)

\* C3 witness: with dry_run set, push, publish_artifacts and send_email were
\* all called and the announcement was written to the local file.
C3_Witness ==
  /\ dry_run
  /\ mail
  /\ {"push", "publish_artifacts", "send_email"} \subseteq Range(calls)
  /\ emailFile

C5_AllOrNothing ==
  (pc = "ended" /\ failedAt \in TrySteps \cup {"co_master_rb"} /\ ~cleanupFailed) =>
    (/\ AtCheckpoint
     /\ created \cap Branches = {}
     /\ NoExternalEffect)

\* C6: when a run that got past branch creation has ended (even with every
\* cleanup command succeeding), both release branches are deleted and the
\* branch given to the run is checked out.
C6_CleanupAlwaysCompletes ==
  (pc = "ended" /\ "BranchesCreated" \in Range(done) /\ ~cleanupFailed) =>
    (/\ MasterReleaseBranch \notin Branches
     /\ SourceReleaseBranch \notin Branches
     /\ current = src_branch)

\* C7: when the process has ended after the creation of a release branch
\* failed, no release branch created by this run exists any more.
C7_PartialBranchesDeleted ==
  (pc = "ended" /\ failedAt \in {"rb_master", "rb_src"}) => created \cap Branches = {}

\* C8: once the creation of a release branch has failed, the process only
\* exits with -1: no cleanup command (reset, tag deletion, branch deletion)
\* is run, no pipeline step completes, no file is rewritten, nothing is
\* committed and nothing is built.
C8_BranchFailureExitsImmediately ==
  failedAt \in {"rb_master", "rb_src"} =>
    (/\ pc \in {"bc_failed", "ended"}
     /\ pc = "ended" => status = "exit-1"
     /\ cleanupRun = {}
     /\ done = <<>>
     /\ ~dirty
     /\ ~deployed
     /\ \A b \in Branches : head[b] \in HeadsWithoutRunCommit)

\* C8 witness: the source release branch could not be created after the
\* master release branch had been, and the process has exited.
C8_Witness ==
  /\ pc = "ended"
  /\ failedAt = "rb_src"
  /\ MasterReleaseBranch \in created
  /\ status = "exit-1"

BranchSteps == {"cp_master", "cp_version", "mvn_clean", "rb_master", "rb_src"}
\* the maven build commands of line 463
BuildCommands ==
  {"mvn clean package ", "mvn clean package -DskipTests", "mvn clean deploy ",
   "mvn clean deploy -DskipTests"}
\* tag v<version> is not there or is the one of before the run
NotTagged == \A t \in DOMAIN tags : tags[t] = "old"

\* C11: when the tracker has an open issue labelled with the version, the
\* maven build is never run, no step after the issue check is entered,
\* nothing is merged, tagged, pushed, uploaded or sent, and once the tracker
\* was asked the run is on the rollback path of the finally clause (log
\* printed, then the resets) with success unset.
C11_OpenIssuesFailRelease ==
  openIssues > 0 =>
    (/\ pc \notin {"build", "get_artifacts", "checksums", "co_master_rb"}
     /\ Range(cmds) \cap BuildCommands = {}
     /\ "Built" \notin Range(done)
     /\ NoExternalEffect
     /\ NotTagged
     /\ \A b \in SourceBranches : head[b] \in HeadsWithoutRunCommit
     /\ "list open issues" \in Range(cmds) =>
          (/\ failedAt = "check_issues"
           /\ ~success
           /\ pc \in FinallySteps \cup {"ended"}
           /\ pc # "finally" => "print_log" \in Range(cmds)
           /\ pc \in {"fin_reset_src", "fin_tag", "fin_tail", "ended"} =>
                "checkout master" \in cleanupRun))

\* C11 witness: the tracker reported an open issue, check_opened_issues
\* raised and the rollback has reset master.
C11_Witness ==
  /\ openIssues > 0
  /\ failedAt = "check_issues"
  /\ raised = "NameError"
  /\ pc = "fin_reset_src"
  /\ "reset master" \in cleanupRun

\* C12: while the release zip is not in target/releases no checksum is
\* generated and no step after the artifact lookup is entered; once the
\* build command has run without the zip being there, the run is at the
\* lookup or has failed at the build or at the lookup; a run that failed at
\* the lookup is on the rollback path with success unset and has merged,
\* tagged, pushed, uploaded and sent nothing.
C12_MissingArtifactFailsRun ==
  /\ ~artifact =>
       (/\ "shasum" \notin Range(cmds)
        /\ pc \notin {"checksums", "co_master_rb"}
        /\ "Built" \notin Range(done)
        /\ Range(cmds) \cap BuildCommands # {} =>
             (pc = "get_artifacts" \/ failedAt \in {"build", "get_artifacts"}))
  /\ failedAt = "get_artifacts" =>
       (/\ ~artifact
        /\ ~success
        /\ pc \in FinallySteps \cup {"ended"}
        /\ pc # "finally" => "print_log" \in Range(cmds)
        /\ pushed = {} /\ uploaded = {} /\ ~mailSent
        /\ NotTagged
        /\ \A b \in SourceBranches : head[b] \in HeadsWithoutRunCommit \cup {master_hash, version_hash})

\* C12 witness: in publish mode the deploy build succeeded without leaving
\* the zip, the lookup failed and the rollback has reset both branches.
C12_Witness ==
  /\ failedAt = "get_artifacts"
  /\ ~artifact
  /\ deployed
  /\ pc = "ended"
  /\ "reset source" \in cleanupRun

\* C13: when git.merge(src_branch, version) was called and none of its
\* commands failed, it returned normally and the source branch is at the
\* head of the source release branch (the release commit, whose manifest
\* has the version without snapshot marker): the commit tag_release tags.
C13_TagOnMergedHead ==
  (/\ calls # <<>>
   /\ calls[Len(calls)] = "merge source"
   /\ raised # "RuntimeError") =>
    (/\ raised = "none"
     /\ head[src_branch] = head[SourceReleaseBranch])

C16_TagDeletionBestEffort ==
  (pc = "ended" /\ "except RuntimeError: pass" \in Range(cmds)) =>
    (/\ MasterReleaseBranch \notin Branches
     /\ SourceReleaseBranch \notin Branches
     /\ current = src_branch)

\* nothing has been pulled, created, rewritten, committed or built: the
\* commands issued are checkouts and head reads
Unmutated ==
  /\ created = {}
  /\ ~dirty
  /\ done = <<>>
  /\ \A b \in SourceBranches : head[b] = PreRunHead(b)
  /\ Range(cmds) \subseteq {"mvn3 --version", "git checkout", "git rev-parse"}

\* C17: a step that assigns master_hash or version_hash assigns a variable
\* that was unset, and when it has assigned it nothing has yet been pulled,
\* created, rewritten or committed; so neither hash is ever reassigned.
C17_CheckpointBeforeMutation ==
  [][/\ master_hash' # master_hash => (master_hash = NoHash /\ Unmutated')
     /\ version_hash' # version_hash => (version_hash = NoHash /\ Unmutated')]_vars

\* C17 witness: both hashes hold the heads of before the run after the pull
\* moved master and the release commit was made.
C17_Witness ==
  /\ master_hash = PreRunHead(Master)
  /\ version_hash = PreRunHead(src_branch)
  /\ MasterReleaseBranch \in created
  /\ head[MasterReleaseBranch] = RemoteHead(Master)
  /\ "git commit" \in Range(cmds)
  /\ pc = "ended"

\* C18: a driver operation whose command exited non-zero does not return:
\* neither checkpoint hash ever holds the output of a failed
\* `git rev-parse`.
C18_FailedCommandRaises == master_hash # ErrorOutput /\ version_hash # ErrorOutput

Output(cb, content) == [k \in 1..Len(content) |-> cb[content[k]]]
\* the callback changes at least one line of the file
Changes(cb, content) == \E k \in 1..Len(content) : cb[content[k]] # content[k]

\* C20: when process_file has returned, the original was replaced if and
\* only if the callback changes a line of it; then True was returned and the
\* file holds the callback's output for every line in order; otherwise False
\* was returned and the file holds what it held; the temporary file is gone.
C20_ProcessFileReplacesIffChanged ==
  pf.pc = "returned" =>
    (/\ pf.replaced <=> Changes(pf.line_callback, pf.orig)
     /\ DOMAIN pf.fs = {FilePath}
     /\ IF Changes(pf.line_callback, pf.orig)
          THEN pf.ret = "True" /\ pf.fs[FilePath] = Output(pf.line_callback, pf.orig)
          ELSE pf.ret = "False" /\ pf.fs[FilePath] = pf.orig)

\* C20 witness: a file of two lines whose first line only the callback
\* changes has been replaced.
C20_Witness ==
  /\ pf.pc = "returned"
  /\ Len(pf.orig) = 2
  /\ pf.line_callback[pf.orig[1]] # pf.orig[1]
  /\ pf.line_callback[pf.orig[2]] = pf.orig[2]
  /\ pf.ret = "True"
  /\ pf.replaced

\* C21: at every point of process_file, a crash between two of its
\* filesystem operations included, the target path exists and holds either
\* the complete original content or the complete rewritten content.
C21_NoPartialWrite ==
  /\ FilePath \in DOMAIN pf.fs
  /\ pf.fs[FilePath] \in {pf.orig, Output(pf.line_callback, pf.orig)}

\* C22 as stated: when the callback returns every line unchanged, no
\* temporary file ever exists and the original is neither rewritten nor
\* replaced.
C22_NoOpNeverTouchesFilesystem ==
  ~Changes(pf.line_callback, pf.orig) =>
    (/\ TmpPath \notin DOMAIN pf.fs
     /\ FilePath \in DOMAIN pf.fs
     /\ pf.fs[FilePath] = pf.orig
     /\ ~pf.replaced)

\* C22: when the callback returns every line unchanged, the original file
\* exists with its content at every point and is never removed or replaced;
\* the temporary file that was created holds copies of lines of the original
\* only, and when process_file has returned it is gone and False was returned.
C22_NoOpLeavesOriginal ==
  ~Changes(pf.line_callback, pf.orig) =>
    (/\ FilePath \in DOMAIN pf.fs
     /\ pf.fs[FilePath] = pf.orig
     /\ ~pf.replaced
     /\ pf.pc \notin {"remove_original", "move"}
     /\ TmpPath \in DOMAIN pf.fs => IsPrefix(pf.fs[TmpPath], pf.orig)
     /\ pf.pc = "returned" => (DOMAIN pf.fs = {FilePath} /\ pf.ret = "False"))

\* C22 witness: process_file has returned from a file of two lines that the
\* callback leaves as they are, after its temporary file existed.
C22_Witness ==
  /\ pf.pc = "returned"
  /\ Len(pf.orig) = 2
  /\ ~Changes(pf.line_callback, pf.orig)
  /\ pf.line_callback # dummy_line_callback
  /\ pf.i = 2
  /\ TmpPath \notin DOMAIN pf.fs

\* the line holds the text old
Contains(line, old) ==
  \E i \in 1..(Len(line) - Len(old) + 1) : SubSeq(line, i, i + Len(old) - 1) = old

\* C23: after remove_maven_snapshot(release) and then
\* add_maven_snapshot(release, next), the manifest has the lines of the
\* original, every line that did not carry
\* <version>{release}-SNAPSHOT</version> being what it was.
C23_RoundTripOnVersionFieldOnly ==
  fn.pc = "done" =>
    (/\ Len(fn.file) = Len(fn.pom)
     /\ \A k \in 1..Len(fn.pom) :
          ~Contains(fn.pom[k], SnapshotLine(fn.release)) => fn.file[k] = fn.pom[k])

\* C24: for a version x.y.z of three numeric components, guess_snapshot
\* returns x.y.(z+1), which differs from the version it was given.
C24_GuessIncrementsThirdComponent ==
  fn.pc = "returned" =>
    (/\ fn.ret = fn.x \o <<".">> \o fn.y \o <<".">> \o str(int(fn.z) + 1)
     /\ fn.ret # fn.version)

\* the line carries a snapshot version
HasSnapshot(line) == \E k \in 1..Len(line) : line[k] = "-SNAPSHOT"

\* C25: the release version read from the manifest is the text between
\* <version> and -SNAPSHOT</version> on the first line of the manifest that
\* carries a snapshot version; when no line of the manifest does, no release
\* version is obtained, no checkpoint is captured, no release branch is
\* created, no head moves and no file is rewritten, and the run that read the
\* manifest ended there with RuntimeError.
C25_ReleaseVersionFromFirstSnapshot ==
  /\ release_version # NoVersion =>
       \E i \in 1..Len(pom) :
         /\ Contains(pom[i], SnapshotLine(release_version))
         /\ \A j \in 1..(i - 1) : ~HasSnapshot(pom[j])
  /\ (\A i \in 1..Len(pom) : ~HasSnapshot(pom[i])) =>
       (/\ release_version = NoVersion
        /\ pc \in {"load", "start", "precheck", "descriptor", "ended"}
        /\ master_hash = NoHash
        /\ version_hash = NoHash
        /\ created = {}
        /\ ~dirty
        /\ done = <<>>
        /\ \A b \in Branches : head[b] \in {PreRunHead(b), "old"}
        /\ Range(cmds) \subseteq {"mvn3 --version", "git checkout", "AWS OK", "AWS FAILED",
                                  "MAIL_SENDER OK", "MAIL_SENDER FAILED", "tools OK",
                                  "tools FAILED"}
        /\ (pc = "ended" /\ failedAt = "descriptor") =>
             (status = "traceback" /\ raised = "RuntimeError"))

\* C25 witness: a run checked out the branch to release, found no snapshot
\* version in its manifest and ended.
C25_Witness ==
  /\ \A i \in 1..Len(pom) : ~HasSnapshot(pom[i])
  /\ pc = "ended"
  /\ failedAt = "descriptor"
  /\ raised = "RuntimeError"
  /\ current = src_branch
  /\ startBranch # src_branch

\* C26: the message is handed to the SMTP server only when mail is enabled
\* and dry_run is false, and then right after it was written to
\* target/email.txt; a call of send_email that wrote the file ends with the
\* send exactly in that case, and with printing the message otherwise.
C26_SendIffMailAndPublish ==
  /\ \A k \in 1..Len(cmds) :
       cmds[k] = "sendmail" =>
         (mail /\ ~dry_run /\ emailFile /\ k > 1 /\ cmds[k - 1] = "write email.txt")
  /\ mailSent => "sendmail" \in Range(cmds)
  /\ (calls # <<>> /\ calls[Len(calls)] = "send_email" /\ raised # "OSError") =>
       (/\ emailFile
        /\ cmds[Len(cmds)] = IF mail /\ ~dry_run THEN "sendmail" ELSE "print email")

\* C26 witness: in publish mode with mail enabled the message was written
\* and then sent.
C26_Witness ==
  /\ mail
  /\ ~dry_run
  /\ calls # <<>>
  /\ calls[Len(calls)] = "send_email"
  /\ cmds = <<"write email.txt", "sendmail">>
  /\ mailSent

\* the number of lines of doc that are x
Count(doc, x) == Cardinality({k \in 1..Len(doc) : doc[k] = x})

\* doc has the header once, followed after skip lines by one line per
\* issue: the entry of the issue formatted by entry, in the order of the list
HasSection(doc, header, skip, list, entry(_)) ==
  /\ Count(doc, header) = 1
  /\ \E h \in 1..Len(doc) :
       /\ doc[h] = header
       /\ h + skip + Len(list) <= Len(doc)
       /\ \A k \in 1..Len(list) : doc[h + skip + k] = entry(list[k])

PlainEntryOf(i) == <<" * [", i.number, "] - ", i.title, " (", i.html_url, ")">>
HtmlEntryOf(i) == <<"<li>[<a href=", i.html_url, ">", i.number, "</a>] - ", i.title>>
IsPlainEntry(line) == line[1] = " * ["
IsHtmlEntry(line) == line[1] = "<li>[<a href="

\* C27: in both parts of the rendered message, the section of each of Fix,
\* Update, New and Doc is present if and only if the category has an issue,
\* and then once, with one entry per issue of the category; the entries of
\* the message are as many as the issues of the four categories; the notice
\* that no issue is listed is present if and only if the four are empty.
C27_SectionsIffIssues ==
  fn.pc = "returned" =>
    LET n(c) == Len(fn.issues[c].list)
        all == n("issues_bug") + n("issues_update") + n("issues_new") + n("issues_doc")
    IN  /\ \A c \in Categories :
             IF n(c) > 0
               THEN /\ HasSection(fn.msg.text, <<Title(c), ":">>, 0, fn.issues[c].list,
                                  PlainEntryOf)
                    /\ HasSection(fn.msg.html, <<"<h2>", Title(c), "</h2>">>, 1,
                                  fn.issues[c].list, HtmlEntryOf)
               ELSE /\ Count(fn.msg.text, <<Title(c), ":">>) = 0
                    /\ Count(fn.msg.html, <<"<h2>", Title(c), "</h2>">>) = 0
        /\ Cardinality({k \in 1..Len(fn.msg.text) : IsPlainEntry(fn.msg.text[k])}) = all
        /\ Cardinality({k \in 1..Len(fn.msg.html) : IsHtmlEntry(fn.msg.html[k])}) = all
        /\ Count(fn.msg.text, <<"No issue listed for this release">>)
             = IF all = 0 THEN 1 ELSE 0
        /\ Count(fn.msg.html, <<"<p>No issue listed for this release</p>">>)
             = IF all = 0 THEN 1 ELSE 0

\* C27 witness: a message was rendered from two Fix issues, one Doc issue,
\* an empty Update list and no New list.
C27_Witness ==
  /\ fn.pc = "returned"
  /\ Len(fn.issues["issues_bug"].list) = 2
  /\ Len(fn.issues["issues_doc"].list) = 1
  /\ fn.issues["issues_update"] = [none |-> FALSE, list |-> <<>>]
  /\ fn.issues["issues_new"] = None
  /\ Count(fn.msg.text, <<"Fix", ":">>) = 1

\* C28 as stated: the absence of a required variable does not stop the run
\* where it starts; no run is ended by the validation of JAVA_HOME or of
\* the object-store credentials.
C28_AbsenceSurfacesAtUse ==
  /\ ~awsCreds => ~(pc = "ended" /\ failedAt = "precheck" /\ raised = "RuntimeError")
  /\ ~javaHome => ~(pc = "ended" /\ failedAt = "load")

\* C28: a publish run without the object-store credentials never gets past
\* the publish pre-check, where it ends with RuntimeError before any
\* repository command was issued; a run without JAVA_HOME ends with
\* RuntimeError while the module is loaded, before any command; in dry-run
\* mode the credentials are not validated and the pre-check ends no run.
C28_CredentialsValidatedAtPrecheck ==
  /\ (~awsCreds /\ ~dry_run /\ ~check) =>
       (/\ pc \in {"load", "start", "precheck", "ended"}
        /\ Range(cmds) \subseteq {"mvn3 --version"}
        /\ current = startBranch
        /\ release_version = NoVersion
        /\ (pc = "ended" /\ failedAt = "precheck") =>
             (raised = "RuntimeError" /\ status = "traceback"))
  /\ ~javaHome =>
       (/\ pc \in {"load", "ended"}
        /\ cmds = <<>>
        /\ pc = "ended" => (failedAt = "load" /\ raised = "RuntimeError"))
  /\ dry_run => failedAt # "precheck"

\* C28 witness: a publish run without the credentials was ended by the
\* pre-check.
C28_Witness ==
  /\ ~awsCreds
  /\ ~dry_run
  /\ pc = "ended"
  /\ failedAt = "precheck"
  /\ raised = "RuntimeError"
  /\ cmds = <<"mvn3 --version">>

\* C29: a process started with --check checks out no branch, creates no
\* branch, moves no head and rewrites no file, issues nothing but the
\* commands of its checks, raises nothing and ends with status 0.
C29_CheckOnlyReports ==
  check =>
    (/\ current = startBranch
     /\ created = {}
     /\ ~dirty
     /\ done = <<>>
     /\ \A b \in Branches : head[b] \in {PreRunHead(b), "old"}
     /\ master_hash = NoHash
     /\ version_hash = NoHash
     /\ Range(cmds) \subseteq {"mvn3 --version", "AWS OK", "AWS FAILED", "MAIL_SENDER OK",
                               "MAIL_SENDER FAILED", "tools OK", "tools FAILED"}
     /\ raised = "none"
     /\ pc = "ended" =>
          (/\ status = "exit0"
           /\ "AWS " \o (IF awsCreds THEN "OK" ELSE "FAILED") \in Range(cmds)))

\* the commands that start maven: the probe of line 105, the clean of line
\* 432 and the build of line 463
MavenCommands == {"mvn3 --version", "mvn clean"} \cup BuildCommands

\* the number of commands of cs that are in the set S
Issued(cs, S) == Cardinality({k \in 1..Len(cs) : cs[k] \in S})

C31_SuccessfulRunReachesDone ==
  (/\ pc = "ended"
   /\ "Built" \in Range(done)
   /\ master_hash \notin {NoHash, ErrorOutput}
   /\ version_hash \notin {NoHash, ErrorOutput}
   /\ ~cleanupFailed) =>
    (success /\ "Done" \in Range(done))

\* C32 as stated: the checkpoint is captured after the two release branches
\* were created: when both hashes are assigned, the run has created both
\* branches.
C32_CheckpointAfterBranchCreation ==
  BothCaptured => created = {MasterReleaseBranch, SourceReleaseBranch}

\* C32: the checkpoint is captured before the release branches are created
\* and before either branch is rebased from the remote: once a pull was
\* issued or a release branch created, both hashes are assigned and each is
\* what `git rev-parse` printed on the head of before the run; the hashes
\* are used only by the resets of the finally clause, which are issued only
\* after the two release branches were created.
C32_CheckpointBeforeBranchesReadInCleanup ==
  /\ (created # {} \/ "git pull --rebase" \in Range(cmds)) =>
       (/\ master_hash \in {PreRunHead(Master), ErrorOutput}
        /\ version_hash \in {PreRunHead(src_branch), ErrorOutput})
  /\ "git reset --hard" \in Range(cmds) =>
       (/\ pc \in FinallySteps \cup {"ended"}
        /\ "BranchesCreated" \in Range(done)
        /\ failedAt \in TrySteps \cup {"co_master_rb"})

\* C32 witness: the pull moved master after the checkpoint was captured,
\* both release branches were created, and the cleanup has reset master to
\* the checkpoint.
C32_Witness ==
  /\ created = {MasterReleaseBranch, SourceReleaseBranch}
  /\ head[MasterReleaseBranch] = RemoteHead(Master)
  /\ master_hash = PreRunHead(Master)
  /\ "reset master" \in cleanupRun
  /\ head[Master] = master_hash
  /\ pc = "fin_reset_src"

\* C33: when a run has ended without a successful publish, a run started
\* next for the same branch and version can create both release branches:
\* no release branch that the ended run created exists any more, and the
\* run has left no tag v<version> of its own.
C33_NothingBlocksNextRun ==
  (pc = "ended" /\ ~(success /\ ~dry_run)) =>
    (/\ \A b \in created : CanCreate(b)
     /\ NotTagged)

\* C34: no step of a run removes or moves a tag that existed before the run
\* started: the cleanup deletes tag v<version> only when the run created it.
C34_PreexistingTagKept ==
  [][\A t \in DOMAIN tags :
       tags[t] = "old" => (t \in DOMAIN tags' /\ tags'[t] = "old")]_vars

\* C35: when a publish run in which every step up to the checksums of the
\* built artifact succeeded has ended, the head of the source branch is the
\* commit "prepare for next development iteration" (manifest at
\* <next>-SNAPSHOT, documentation header in the snapshot form) made on top
\* of the release commit, and tag v<version> is on that release commit.
C35_SnapshotCommitOnSourceBranch ==
  (/\ pc = "ended"
   /\ ~dry_run
   /\ "Built" \in Range(done)
   /\ master_hash \notin {NoHash, ErrorOutput}
   /\ version_hash \notin {NoHash, ErrorOutput}
   /\ ~cleanupFailed) =>
    \E base \in {PreRunHead(src_branch), RemoteHead(src_branch)} :
      /\ head[src_branch]
           = Commit(Commit(base, "prepare release"), "prepare for next development iteration")
      /\ TagName(ReleaseVersion) \in DOMAIN tags
      /\ tags[TagName(ReleaseVersion)] = Commit(base, "prepare release")

\* C36: no step of a run puts the release commit or the snapshot commit on
\* trunk or on the trunk release branch, whose heads stay at a commit of
\* before the run or of the remote; the commits of the run are on the
\* source branch and its release branch only, and pom.xml and README.md
\* are rewritten only while the source release branch is checked out.
C36_TrunkGetsNoVersionCommit ==
  [][/\ \A b \in DOMAIN head' :
          IF b \in {Master, MasterReleaseBranch}
            THEN head'[b] \in HeadsWithoutRunCommit
            ELSE head'[b] \notin HeadsWithoutRunCommit =>
                   b \in {src_branch, SourceReleaseBranch}
     /\ (~dirty /\ dirty') => current = SourceReleaseBranch]_vars

\* C36 witness: the release commit is on the source release branch while
\* trunk and the trunk release branch are at the remote's head.
C36_Witness ==
  /\ MasterReleaseBranch \in Branches
  /\ SourceReleaseBranch \in Branches
  /\ head[SourceReleaseBranch] = Commit(RemoteHead(src_branch), "prepare release")
  /\ head[MasterReleaseBranch] = RemoteHead(Master)
  /\ head[Master] = RemoteHead(Master)
  /\ pc = "check_issues"

\* the elasticsearch version the manifest names carries -SNAPSHOT
SnapshotDependency ==
  /\ elasticsearch_version(pom) # NotFound
  /\ HasSnapshot(elasticsearch_version(pom))

\* C37: when the elasticsearch version named by the manifest contains
\* -SNAPSHOT, no checkpoint is ever captured, no release branch is created,
\* no head moves, no file is rewritten and nothing but the maven probe and
\* the checkout of the source branch is issued; and once the manifest has
\* been read the run has ended at that step with an uncaught RuntimeError.
C37_SnapshotDependencyRefusedEarly ==
  SnapshotDependency =>
    /\ master_hash = NoHash /\ version_hash = NoHash
    /\ created = {}
    /\ ~dirty
    /\ done = <<>>
    /\ \A b \in SourceBranches : head[b] = PreRunHead(b)
    /\ NoExternalEffect
    /\ ~success
    /\ "git rev-parse" \notin Range(cmds)
    /\ release_version # NoVersion =>
         (pc = "ended" /\ status = "traceback" /\ raised = "RuntimeError"
          /\ failedAt = "descriptor")

\* a manifest with every descriptor and a snapshot parent version was read
\* and the run ended at the descriptor step
C37_Witness ==
  /\ SnapshotDependency
  /\ descriptors_found(pom)
  /\ find_from_pom(pom, "elasticsearch.version", <<>>) = NotFound
  /\ release_version # NoVersion
  /\ pc = "ended" /\ raised = "RuntimeError" /\ failedAt = "descriptor"
  /\ current = src_branch
====
